---- MODULE Spec2Model ----
(***************************************************************************)
(* retry-lit: retry(input, options) and generateTimeouts.                  *)
(*                                                                         *)
(* One invocation of retry() is modelled as a state machine.  The async    *)
(* attempt callback is cut at its two await points (the operation and the  *)
(* failure observer) and at the setTimeout callback.  Time is an integer   *)
(* clock in milliseconds that advances while the operation, the observer   *)
(* or the timer is outstanding.                                            *)
(***************************************************************************)
EXTENDS Integers, Sequences, FiniteSets, TLC

\* ------------------------------------------------------------------ bounds
MaxRetries == 2
MaxDuration == 1
MaxJitter == 1

\* ------------------------------------------------------------------ values
\* A JavaScript value: kind is the class (or primitive type), id tells two
\* objects of one class apart.  origKind/origId name the originalError an
\* AbortError wraps.
Val(kind, message, id) ==
  [kind |-> kind, message |-> message, id |-> id, origKind |-> "", origId |-> 0]

null == Val("null", "", 0)
undefined == Val("undefined", "", 0)

\* x instanceof Error
instanceofError(v) == v.kind \in {"Error", "TypeError", "AbortError", "AttemptError"}

\* `${v}` for the primitive values the model throws
String(v) ==
  CASE v.kind = "string" -> v.message
    [] v.kind = "null" -> "null"
    [] v.kind = "undefined" -> "undefined"
    [] OTHER -> v.kind \o ": " \o v.message

networkErrorMsgs ==
  { "Failed to fetch",
    "NetworkError when attempting to fetch resource.",
    "The Internet connection appears to be offline.",
    "Network request failed" }

\* mutant: every message counts as a network error
isNetworkErrorAlways(errorMessage) == TRUE

isNetworkError(errorMessage) == errorMessage \in networkErrorMsgs

\* new AbortError(message), the new object getting identity id
AbortError(message, id) ==
  IF instanceofError(message)
    THEN [kind |-> "AbortError", message |-> message.message, id |-> id,
          origKind |-> message.kind, origId |-> message.id]
    ELSE [kind |-> "AbortError", message |-> message.message, id |-> id,
          origKind |-> "Error", origId |-> id]

\* mutant: the wrapper itself instead of what it wraps
originalErrorIsWrapper(e) == Val(e.kind, e.message, e.id)

\* err.originalError
originalError(e) == Val(e.origKind, e.message, e.origId)

\* mutant: the message of the failure is not copied
AttemptErrorWithoutMessage(message, attemptNumber, retriesLeft) ==
  [kind |-> "AttemptError", message |-> "",
   attemptNumber |-> attemptNumber, retriesLeft |-> retriesLeft]

\* new AttemptError(message) with attemptNumber and retriesLeft assigned
AttemptError(message, attemptNumber, retriesLeft) ==
  [kind |-> "AttemptError", message |-> message,
   attemptNumber |-> attemptNumber, retriesLeft |-> retriesLeft]

\* ------------------------------------------------------------------ numbers
\* A timeout bound is a number or Infinity.
Infinity == [inf |-> TRUE, v |-> 0]
Num(n) == [inf |-> FALSE, v |-> n]

\* factor is a rational num/den, den > 0
Rat(n, d) == [num |-> n, den |-> d]

RECURSIVE Pow(_, _)
Pow(b, e) == IF e = 0 THEN 1 ELSE b * Pow(b, e - 1)

\* Math.max(a, b) on integers
MathMax(a, b) == IF a >= b THEN a ELSE b

\* Math.round(n / d), d > 0: the nearest integer, halves rounded up
MathRound(n, d) == (2 * n + d) \div (2 * d)

\* Math.min(a, max) where max may be Infinity
MathMin(a, max) == IF max.inf THEN a ELSE IF a <= max.v THEN a ELSE max.v

\* mutant: the exponent counts from 1
generateTimeoutsFromOne(retries, min, max, factor) ==
  [i \in 1..retries |->
     MathMin(MathRound(MathMax(min, 1) * Pow(factor.num, i),
                       Pow(factor.den, i)),
             max)]

generateTimeouts(retries, min, max, factor) ==
  [i \in 1..retries |->
     MathMin(MathRound(MathMax(min, 1) * Pow(factor.num, i - 1),
                       Pow(factor.den, i - 1)),
             max)]

\* ------------------------------------------------------------------ mainError
\* counts[message] after the first i errors
CountUpTo(errs, i, message) ==
  Cardinality({j \in 1..i : errs[j].message = message})

RECURSIVE mainErrorLoop(_, _, _, _)
mainErrorLoop(errs, i, main, mainErrorCount) ==
  IF i > Len(errs) THEN main
  ELSE LET count == CountUpTo(errs, i, errs[i].message)
       IN IF count >= mainErrorCount
            THEN mainErrorLoop(errs, i + 1, errs[i], count)
            ELSE mainErrorLoop(errs, i + 1, main, mainErrorCount)

RECURSIVE mainErrorLoopStrict(_, _, _, _)
mainErrorLoopStrict(errs, i, main, mainErrorCount) ==
  IF i > Len(errs) THEN main
  ELSE LET count == CountUpTo(errs, i, errs[i].message)
       IN IF count > mainErrorCount
            THEN mainErrorLoopStrict(errs, i + 1, errs[i], count)
            ELSE mainErrorLoopStrict(errs, i + 1, main, mainErrorCount)

\* mutant: the update rule is strict, a tie keeps the earlier failure
mainErrorStrict(errs) ==
  IF Len(errs) = 0 THEN null ELSE mainErrorLoopStrict(errs, 1, null, 0)

\* mutant: the first failure of the accumulator
mainErrorFirst(errs) == IF Len(errs) = 0 THEN null ELSE errs[1]

mainError(errs) ==
  IF Len(errs) = 0 THEN null ELSE mainErrorLoop(errs, 1, null, 0)

\* ------------------------------------------------------------------ options
\* An option is absent (<<>>) or present (<<value>>).
Factors == {Rat(1, 2), Rat(2, 1)}
MinTimeouts == {0, 2}
MaxTimeouts == {1, 2}

EmptyOptions ==
  [retries |-> <<>>, factor |-> <<>>, minTimeout |-> <<>>, maxTimeout |-> <<>>]

Options ==
  {EmptyOptions} \cup
  [retries : {<<r>> : r \in 0..MaxRetries},
   factor : {<<f>> : f \in Factors},
   minTimeout : {<<m>> : m \in MinTimeouts},
   maxTimeout : {<<>>} \cup {<<Num(x)>> : x \in MaxTimeouts}]

defaults ==
  [retries |-> 3, factor |-> Rat(2, 1), minTimeout |-> 1000, maxTimeout |-> Infinity]

\* { ...defaults, ...options }
Merge(o) ==
  [k \in DOMAIN defaults |-> IF o[k] = <<>> THEN defaults[k] ELSE o[k][1]]

\* mutant: the validation also refuses minTimeout equal to maxTimeout
GtOrEqual(a, b) == ~b.inf /\ a >= b.v

\* a > b where b may be Infinity
Gt(a, b) == ~b.inf /\ a > b.v

\* ------------------------------------------------------------------ state
VARIABLES
  options,        \* the options argument of retry()
  opts,           \* defaults merged with options
  pc,             \* what is outstanding: "idle", "input", "onFailedAttempt", "timer", "none"
  now,            \* new Date().getTime()
  timeouts,       \* the remaining schedule
  maxRetryTime,   \* timeouts[timeouts.length - 1], possibly undefined
  errors,         \* the error accumulator
  operationStart,
  attempts,
  attemptNumber,  \* the argument of the running attempt callback
  timeoutId,      \* the last timer: set (truthy), due time, active (pending)
  err,            \* the failure caught by the running attempt callback
  settled,        \* the calls of resolve/reject, in order
  inputCalls,     \* the arguments input() was called with, in order
  results,        \* what each completed call of input() produced, in order
  observerCalls,  \* the AttemptErrors onFailedAttempt was called with, in order
  observerThrew,  \* what onFailedAttempt raised, if it did
  observerDone,   \* how many calls of onFailedAttempt have completed
  observerAt,     \* when onFailedAttempt was last called
  fn,             \* a function applied on its own: its name and arguments
  ret             \* <<its result>> once it has returned

vars ==
  <<options, opts, pc, now, timeouts, maxRetryTime, errors, operationStart,
    attempts, attemptNumber, timeoutId, err, settled, inputCalls, results,
    observerCalls, observerThrew, observerDone, observerAt, fn, ret>>

\* the variables of a function applied on its own
pureVars == <<fn, ret>>

\* the variables of an invocation of retry()
engineVars ==
  <<options, opts, pc, now, timeouts, maxRetryTime, errors, operationStart,
    attempts, attemptNumber, timeoutId, err, settled, inputCalls, results,
    observerCalls, observerThrew, observerDone, observerAt>>

NoTimer == [set |-> FALSE, active |-> FALSE, at |-> 0, timeout |-> 0, due |-> 0]
Undefined == [defined |-> FALSE, v |-> 0]

Init ==
  /\ options \in Options
  /\ opts = defaults
  /\ pc = "idle"
  /\ now = 0
  /\ timeouts = <<>>
  /\ maxRetryTime = Undefined
  /\ errors = <<>>
  /\ operationStart = 0
  /\ attempts = 1
  /\ attemptNumber = 0
  /\ timeoutId = NoTimer
  /\ err = null
  /\ settled = <<>>
  /\ inputCalls = <<>>
  /\ results = <<>>
  /\ observerCalls = <<>>
  /\ observerThrew = <<>>
  /\ observerDone = 0
  /\ observerAt = 0
  /\ fn = [name |-> "retry"]
  /\ ret = <<>>

\* ------------------------------------------------------------------ the environment
\* What input() may produce on the attempt called with k.
Value(k) == Val("value", "fixture", k)

\* the network error of attempt k: the browsers' messages in turn
NetworkMessages(k) ==
  CASE k % 4 = 1 -> {"Failed to fetch"}
    [] k % 4 = 2 -> {"NetworkError when attempting to fetch resource."}
    [] k % 4 = 3 -> {"The Internet connection appears to be offline."}
    [] OTHER -> {"Network request failed"}

RetryableFailures(k) ==
  { Val("Error", "fixture", k), Val("Error", "other", k) } \cup
  { Val("TypeError", m, k) : m \in NetworkMessages(k) }

FatalFailures(k) ==
  { Val("TypeError", "type-error-fixture", k), Val("TypeError", "failed to fetch", k) }

AbortFailures(k) ==
  { AbortError(Val("Error", "fixture", k), k),
    AbortError(Val("string", "Failed to fetch", 0), k) }

NonErrors == { Val("string", "unuseful", 0), null, undefined }

Failures(k) ==
  RetryableFailures(k) \cup FatalFailures(k) \cup AbortFailures(k) \cup NonErrors

\* What onFailedAttempt may raise.
ObserverFailures ==
  { Val("Error", "thrown from onFailedAttempt", 0),
    Val("string", "thrown from onFailedAttempt", 0) }

\* ------------------------------------------------------------------ retry()
Marker == Val("Error", "Maximum retry timeout reached", 0)

ConfigError == Val("Error", "minTimeout must be less than maxTimeout", 0)

\* mutant: the thrown value without its quotes
NonErrorMessageUnquoted(e) ==
  "Non-error was thrown: " \o String(e) \o ". You should only throw errors."

NonErrorMessage(e) ==
  "Non-error was thrown: \"" \o String(e) \o "\". You should only throw errors."

\* !v
Falsy(v) == v.kind \in {"null", "undefined"} \/ (v.kind = "string" /\ v.message = "")

\* a >= m where m may be undefined (a comparison with undefined is false)
Ge(a, m) == m.defined /\ a >= m.v

\* mutant: resolve() without the awaited value
ResolveUndefined(value) == Append(settled, [how |-> "resolve", value |-> undefined])

Resolve(value) == Append(settled, [how |-> "resolve", value |-> value])
Reject(reason) == Append(settled, [how |-> "reject", value |-> reason])

\* what is outstanding once the running callback has returned
Pending(tid) == IF tid.active THEN "timer" ELSE "none"

\* mutant: the first attempt counted as a retry
retriesLeftCountsFirst(retries, n) == retries - n

\* const retriesLeft = opts.retries - (attemptNumber - 1)
retriesLeft(retries, n) == retries - (n - 1)

\* The branch the catch block takes for the failure e.
classify(e) ==
  IF ~instanceofError(e) THEN "nonError"
  ELSE IF e.kind = "AbortError" THEN "abort"
  ELSE IF e.kind = "TypeError" /\ ~isNetworkError(e.message) THEN "fatal"
  ELSE "retryable"

\* setTimeout(callback, timeout) at time at: the callback is due once the
\* delay has passed (a delay below 0 counts as 0)
setTimeout(timeout, at) ==
  [set |-> TRUE, active |-> TRUE, at |-> at, timeout |-> timeout,
   due |-> at + MathMax(timeout, 0)]

\* mutant: the delay is taken from the back of the schedule
retryPopsLast(e, currentTime) ==
  IF Falsy(e)
    THEN [ret |-> FALSE, errors |-> errors, timeouts |-> timeouts, timeoutId |-> timeoutId]
  ELSE IF Ge(currentTime - operationStart, maxRetryTime)
    THEN [ret |-> FALSE, errors |-> <<Marker>> \o Append(errors, e),
          timeouts |-> timeouts, timeoutId |-> timeoutId]
  ELSE IF timeouts = <<>>
    THEN [ret |-> FALSE, errors |-> Append(errors, e),
          timeouts |-> timeouts, timeoutId |-> timeoutId]
  ELSE [ret |-> TRUE, errors |-> Append(errors, e),
        timeouts |-> SubSeq(timeouts, 1, Len(timeouts) - 1),
        timeoutId |-> setTimeout(timeouts[Len(timeouts)], currentTime)]

\* mutant: the marker is pushed to the back of the accumulator
retryPushesMarker(e, currentTime) ==
  IF Falsy(e)
    THEN [ret |-> FALSE, errors |-> errors, timeouts |-> timeouts, timeoutId |-> timeoutId]
  ELSE IF Ge(currentTime - operationStart, maxRetryTime)
    THEN [ret |-> FALSE, errors |-> Append(Append(errors, e), Marker),
          timeouts |-> timeouts, timeoutId |-> timeoutId]
  ELSE IF timeouts = <<>>
    THEN [ret |-> FALSE, errors |-> Append(errors, e),
          timeouts |-> timeouts, timeoutId |-> timeoutId]
  ELSE [ret |-> TRUE, errors |-> Append(errors, e), timeouts |-> Tail(timeouts),
        timeoutId |-> setTimeout(Head(timeouts), currentTime)]

\* mutant: the time-budget exit still arms the timer for the next entry
retrySchedulesOnBudgetExit(e, currentTime) ==
  IF Falsy(e)
    THEN [ret |-> FALSE, errors |-> errors, timeouts |-> timeouts, timeoutId |-> timeoutId]
  ELSE IF Ge(currentTime - operationStart, maxRetryTime)
    THEN [ret |-> FALSE, errors |-> <<Marker>> \o Append(errors, e),
          timeouts |-> timeouts,
          timeoutId |-> IF timeouts = <<>> THEN timeoutId
                        ELSE setTimeout(Head(timeouts), currentTime)]
  ELSE IF timeouts = <<>>
    THEN [ret |-> FALSE, errors |-> Append(errors, e),
          timeouts |-> timeouts, timeoutId |-> timeoutId]
  ELSE [ret |-> TRUE, errors |-> Append(errors, e), timeouts |-> Tail(timeouts),
        timeoutId |-> setTimeout(Head(timeouts), currentTime)]

\* mutant: the delay is read from the schedule without being removed from it
retryKeepsSchedule(e, currentTime) ==
  IF Falsy(e)
    THEN [ret |-> FALSE, errors |-> errors, timeouts |-> timeouts, timeoutId |-> timeoutId]
  ELSE IF Ge(currentTime - operationStart, maxRetryTime)
    THEN [ret |-> FALSE, errors |-> <<Marker>> \o Append(errors, e),
          timeouts |-> timeouts, timeoutId |-> timeoutId]
  ELSE IF timeouts = <<>>
    THEN [ret |-> FALSE, errors |-> Append(errors, e),
          timeouts |-> timeouts, timeoutId |-> timeoutId]
  ELSE [ret |-> TRUE, errors |-> Append(errors, e), timeouts |-> timeouts,
        timeoutId |-> setTimeout(Head(timeouts), currentTime)]

\* mutant: the failure is pushed only once a timeout has been shifted
retryPushesAfterShift(e, currentTime) ==
  IF Falsy(e)
    THEN [ret |-> FALSE, errors |-> errors, timeouts |-> timeouts, timeoutId |-> timeoutId]
  ELSE IF Ge(currentTime - operationStart, maxRetryTime)
    THEN [ret |-> FALSE, errors |-> <<Marker>> \o Append(errors, e),
          timeouts |-> timeouts, timeoutId |-> timeoutId]
  ELSE IF timeouts = <<>>
    THEN [ret |-> FALSE, errors |-> errors,
          timeouts |-> timeouts, timeoutId |-> timeoutId]
  ELSE [ret |-> TRUE, errors |-> Append(errors, e), timeouts |-> Tail(timeouts),
        timeoutId |-> setTimeout(Head(timeouts), currentTime)]

\* mutant: an empty schedule reports a scheduled retry
retryTrueOnEmpty(e, currentTime) ==
  IF Falsy(e)
    THEN [ret |-> FALSE, errors |-> errors, timeouts |-> timeouts, timeoutId |-> timeoutId]
  ELSE IF Ge(currentTime - operationStart, maxRetryTime)
    THEN [ret |-> FALSE, errors |-> <<Marker>> \o Append(errors, e),
          timeouts |-> timeouts, timeoutId |-> timeoutId]
  ELSE IF timeouts = <<>>
    THEN [ret |-> TRUE, errors |-> Append(errors, e),
          timeouts |-> timeouts, timeoutId |-> timeoutId]
  ELSE [ret |-> TRUE, errors |-> Append(errors, e), timeouts |-> Tail(timeouts),
        timeoutId |-> setTimeout(Head(timeouts), currentTime)]

\* The inner retry(err) at time currentTime: its return value and the
\* accumulator, schedule and timer it leaves.
retry(e, currentTime) ==
  IF Falsy(e)
    THEN [ret |-> FALSE, errors |-> errors, timeouts |-> timeouts, timeoutId |-> timeoutId]
  ELSE IF Ge(currentTime - operationStart, maxRetryTime)
    THEN [ret |-> FALSE, errors |-> <<Marker>> \o Append(errors, e),
          timeouts |-> timeouts, timeoutId |-> timeoutId]
  ELSE IF timeouts = <<>>
    THEN [ret |-> FALSE, errors |-> Append(errors, e),
          timeouts |-> timeouts, timeoutId |-> timeoutId]
  ELSE [ret |-> TRUE, errors |-> Append(errors, e), timeouts |-> Tail(timeouts),
        timeoutId |-> setTimeout(Head(timeouts), currentTime)]

\* stop(): clearTimeout(timeoutId) and timeouts = []
stop(tid) == [timeouts |-> <<>>, timeoutId |-> [tid EXCEPT !.active = FALSE]]

\* retry(input, options): the promise executor up to the first call of input()
Call ==
  /\ pc = "idle"
  /\ opts' = Merge(options)
  /\ IF Gt(opts'.minTimeout, opts'.maxTimeout)
       THEN /\ settled' = Reject(ConfigError)
            /\ pc' = "none"
            /\ UNCHANGED <<timeouts, maxRetryTime, errors, operationStart, attempts,
                           attemptNumber, inputCalls>>
       ELSE /\ timeouts' = generateTimeouts(opts'.retries, opts'.minTimeout,
                                            opts'.maxTimeout, opts'.factor)
            /\ maxRetryTime' = IF Len(timeouts') = 0 THEN Undefined
                               ELSE [defined |-> TRUE, v |-> timeouts'[Len(timeouts')]]
            /\ errors' = <<>>
            /\ attempts' = 1
            /\ operationStart' = now
            /\ attemptNumber' = attempts'
            /\ inputCalls' = Append(inputCalls, attempts')
            /\ pc' = "input"
            /\ UNCHANGED settled
  /\ UNCHANGED <<options, now, timeoutId, err, results, observerCalls, observerThrew,
                 observerDone, observerAt, pureVars>>

\* input(attemptNumber) produces a value after d ms: resolve(await input(...))
InputReturns(d) ==
  /\ pc = "input"
  /\ now' = now + d
  /\ results' = Append(results, Value(attemptNumber))
  /\ settled' = Resolve(Value(attemptNumber))
  /\ pc' = Pending(timeoutId)
  /\ UNCHANGED <<options, opts, timeouts, maxRetryTime, errors, operationStart,
                 attempts, attemptNumber, timeoutId, err, inputCalls,
                 observerCalls, observerThrew, observerDone, observerAt, pureVars>>

\* mutant: the retry timer is armed before onFailedAttempt is awaited
InputThrowsArmsTimerFirst(e, d) ==
  /\ pc = "input"
  /\ now' = now + d
  /\ results' = Append(results, e)
  /\ err' = e
  /\ CASE classify(e) = "nonError" ->
            /\ settled' = Reject(Val("TypeError", NonErrorMessage(e), 0))
            /\ pc' = Pending(timeoutId)
            /\ UNCHANGED <<timeouts, timeoutId, observerCalls, observerAt>>
       [] classify(e) = "abort" ->
            /\ timeouts' = stop(timeoutId).timeouts
            /\ timeoutId' = stop(timeoutId).timeoutId
            /\ settled' = Reject(originalError(e))
            /\ pc' = Pending(timeoutId')
            /\ UNCHANGED <<observerCalls, observerAt>>
       [] classify(e) = "fatal" ->
            /\ timeouts' = stop(timeoutId).timeouts
            /\ timeoutId' = stop(timeoutId).timeoutId
            /\ settled' = Reject(e)
            /\ pc' = Pending(timeoutId')
            /\ UNCHANGED <<observerCalls, observerAt>>
       [] OTHER ->
            /\ observerCalls' =
                 Append(observerCalls,
                        AttemptError(e.message, attemptNumber,
                                     retriesLeft(opts.retries, attemptNumber)))
            /\ observerAt' = now'
            /\ timeoutId' = IF timeouts = <<>> THEN timeoutId
                            ELSE setTimeout(Head(timeouts), now')
            /\ pc' = "onFailedAttempt"
            /\ UNCHANGED <<timeouts, settled>>
  /\ UNCHANGED <<options, opts, maxRetryTime, errors, operationStart, attempts,
                 attemptNumber, inputCalls, observerThrew, observerDone, pureVars>>

\* input(attemptNumber) raises e after d ms: the catch block up to the await
\* of onFailedAttempt
InputThrows(e, d) ==
  /\ pc = "input"
  /\ now' = now + d
  /\ results' = Append(results, e)
  /\ err' = e
  /\ CASE classify(e) = "nonError" ->
            /\ settled' = Reject(Val("TypeError", NonErrorMessage(e), 0))
            /\ pc' = Pending(timeoutId)
            /\ UNCHANGED <<timeouts, timeoutId, observerCalls, observerAt>>
       [] classify(e) = "abort" ->
            /\ timeouts' = stop(timeoutId).timeouts
            /\ timeoutId' = stop(timeoutId).timeoutId
            /\ settled' = Reject(originalError(e))
            /\ pc' = Pending(timeoutId')
            /\ UNCHANGED <<observerCalls, observerAt>>
       [] classify(e) = "fatal" ->
            /\ timeouts' = stop(timeoutId).timeouts
            /\ timeoutId' = stop(timeoutId).timeoutId
            /\ settled' = Reject(e)
            /\ pc' = Pending(timeoutId')
            /\ UNCHANGED <<observerCalls, observerAt>>
       [] OTHER ->
            /\ observerCalls' =
                 Append(observerCalls,
                        AttemptError(e.message, attemptNumber,
                                     retriesLeft(opts.retries, attemptNumber)))
            /\ observerAt' = now'
            /\ pc' = "onFailedAttempt"
            /\ UNCHANGED <<timeouts, timeoutId, settled>>
  /\ UNCHANGED <<options, opts, maxRetryTime, errors, operationStart, attempts,
                 attemptNumber, inputCalls, observerThrew, observerDone, pureVars>>

\* onFailedAttempt(attemptErr) completes after d ms: if (!retry(err)) reject(mainError())
OnFailedAttemptReturns(d) ==
  /\ pc = "onFailedAttempt"
  /\ now' = now + d
  /\ LET r == retry(err, now')
     IN /\ errors' = r.errors
        /\ timeouts' = r.timeouts
        /\ timeoutId' = r.timeoutId
        /\ settled' = IF r.ret THEN settled ELSE Reject(mainError(r.errors))
  /\ pc' = Pending(timeoutId')
  /\ observerDone' = observerDone + 1
  /\ UNCHANGED <<options, opts, maxRetryTime, operationStart, attempts,
                 attemptNumber, err, inputCalls, results, observerCalls,
                 observerThrew, observerAt, pureVars>>

\* mutant: reject(error) without the return, so the callback goes on to retry(err)
OnFailedAttemptThrowsNoReturn(x, d) ==
  /\ pc = "onFailedAttempt"
  /\ now' = now + d
  /\ observerThrew' = Append(observerThrew, x)
  /\ LET r == retry(err, now')
         rejected == Append(settled, [how |-> "reject", value |-> x])
     IN /\ errors' = r.errors
        /\ timeouts' = r.timeouts
        /\ timeoutId' = r.timeoutId
        /\ settled' = IF r.ret THEN rejected
                      ELSE Append(rejected, [how |-> "reject", value |-> mainError(r.errors)])
  /\ pc' = Pending(timeoutId')
  /\ observerDone' = observerDone + 1
  /\ UNCHANGED <<options, opts, maxRetryTime, operationStart, attempts,
                 attemptNumber, err, inputCalls, results, observerCalls,
                 observerAt, pureVars>>

\* onFailedAttempt(attemptErr) raises x after d ms: reject(error); return
OnFailedAttemptThrows(x, d) ==
  /\ pc = "onFailedAttempt"
  /\ now' = now + d
  /\ observerThrew' = Append(observerThrew, x)
  /\ settled' = Reject(x)
  /\ pc' = Pending(timeoutId)
  /\ observerDone' = observerDone + 1
  /\ UNCHANGED <<options, opts, timeouts, maxRetryTime, errors, operationStart,
                 attempts, attemptNumber, timeoutId, err, inputCalls, results,
                 observerCalls, observerAt, pureVars>>

\* mutant: the callback may run before its delay has passed
TimerFiresEarly(j) ==
  /\ timeoutId.active
  /\ now' = now + j
  /\ timeoutId' = [timeoutId EXCEPT !.active = FALSE]
  /\ attempts' = attempts + 1
  /\ attemptNumber' = attempts'
  /\ inputCalls' = Append(inputCalls, attempts')
  /\ pc' = "input"
  /\ UNCHANGED <<options, opts, timeouts, maxRetryTime, errors, operationStart,
                 err, settled, results, observerCalls, observerThrew, observerDone,
                 observerAt, pureVars>>

\* the setTimeout callback runs, j ms after it became due: attempts++; fn(attempts)
TimerFires(j) ==
  /\ timeoutId.active
  /\ now' = MathMax(now, timeoutId.due) + j
  /\ timeoutId' = [timeoutId EXCEPT !.active = FALSE]
  /\ attempts' = attempts + 1
  /\ attemptNumber' = attempts'
  /\ inputCalls' = Append(inputCalls, attempts')
  /\ pc' = "input"
  /\ UNCHANGED <<options, opts, timeouts, maxRetryTime, errors, operationStart,
                 err, settled, results, observerCalls, observerThrew, observerDone,
                 observerAt, pureVars>>

Durations == 0..MaxDuration
Jitters == 0..MaxJitter

InputReturnsStep == \E d \in Durations : InputReturns(d)
InputThrowsStep == \E d \in Durations : \E e \in Failures(attemptNumber) : InputThrows(e, d)
OnFailedAttemptReturnsStep == \E d \in Durations : OnFailedAttemptReturns(d)
OnFailedAttemptThrowsStep ==
  \E d \in Durations : \E x \in ObserverFailures : OnFailedAttemptThrows(x, d)
TimerFiresStep == \E j \in Jitters : TimerFires(j)

Next ==
  \/ Call
  \/ InputReturnsStep
  \/ InputThrowsStep
  \/ OnFailedAttemptReturnsStep
  \/ OnFailedAttemptThrowsStep
  \/ TimerFiresStep

Spec == Init /\ [][Next]_vars

\* Whatever is outstanding completes: the call of retry runs its executor, the
\* operation and the observer return or raise, a scheduled timer fires.  At
\* most one of them is outstanding in a state (pc), so this is fairness of Next.
FairSpec == Spec /\ WF_vars(Next)

\* ------------------------------------------------------------------ functions on their own
\* generateTimeouts and mainError applied to arguments of their own, outside
\* an invocation of retry().
MaxGenRetries == 3
MaxErrors == 4

\* generateTimeouts(retries = 5, min = 10, max = Infinity, factor = 6)
generateTimeoutsDefaults ==
  [retries |-> 5, min |-> 10, max |-> Infinity, factor |-> Rat(6, 1)]

\* an argument left out (<<>>) takes its default
Arg(args, k) == IF args[k] = <<>> THEN generateTimeoutsDefaults[k] ELSE args[k][1]

GenFactors == {Rat(0, 1), Rat(1, 2), Rat(3, 2), Rat(2, 1), Rat(6, 1), Rat(-2, 1)}
GenMins == {-1, 0, 1, 3}
GenMaxes == {Num(0), Num(4), Infinity}

GenArguments ==
  {[retries |-> <<>>, min |-> <<>>, max |-> <<>>, factor |-> <<>>]} \cup
  [retries : {<<r>> : r \in 0..MaxGenRetries},
   min : {<<m>> : m \in GenMins},
   max : {<<m>> : m \in GenMaxes},
   factor : {<<>>} \cup {<<f>> : f \in GenFactors}]

\* the messages of the failures an accumulator holds
ErrorMessages == {"fixture", "other", "Maximum retry timeout reached"}

\* accumulators: the i-th failure is a distinct object (id i)
Accumulators ==
  UNION {{[i \in 1..n |-> Val("Error", m[i], i)] : m \in [1..n -> ErrorMessages]}
           : n \in 0..MaxErrors}

Applications ==
  {[name |-> "generateTimeouts", args |-> a] : a \in GenArguments} \cup
  {[name |-> "mainError", args |-> a] : a \in Accumulators}

PureInit ==
  /\ fn \in Applications
  /\ ret = <<>>
  /\ options = EmptyOptions
  /\ opts = defaults
  /\ pc = "none"
  /\ now = 0
  /\ timeouts = <<>>
  /\ maxRetryTime = Undefined
  /\ errors = <<>>
  /\ operationStart = 0
  /\ attempts = 1
  /\ attemptNumber = 0
  /\ timeoutId = NoTimer
  /\ err = null
  /\ settled = <<>>
  /\ inputCalls = <<>>
  /\ results = <<>>
  /\ observerCalls = <<>>
  /\ observerThrew = <<>>
  /\ observerDone = 0
  /\ observerAt = 0

ApplyGenerateTimeouts ==
  /\ fn.name = "generateTimeouts"
  /\ ret = <<>>
  /\ ret' = <<generateTimeouts(Arg(fn.args, "retries"), Arg(fn.args, "min"),
                               Arg(fn.args, "max"), Arg(fn.args, "factor"))>>
  /\ UNCHANGED <<fn, engineVars>>

ApplyMainError ==
  /\ fn.name = "mainError"
  /\ ret = <<>>
  /\ ret' = <<mainError(fn.args)>>
  /\ UNCHANGED <<fn, engineVars>>

PureNext == ApplyGenerateTimeouts \/ ApplyMainError

PureSpec == PureInit /\ [][PureNext]_vars

\* ------------------------------------------------------------------ properties
Last(s) == s[Len(s)]

\* The four network messages, as the documentation lists them.
IsNetworkMessage(m) ==
  \/ m = "Failed to fetch"
  \/ m = "NetworkError when attempting to fetch resource."
  \/ m = "The Internet connection appears to be offline."
  \/ m = "Network request failed"

IsRetryable(e) ==
  \/ e.kind = "Error"
  \/ e.kind = "TypeError" /\ IsNetworkMessage(e.message)

IsFatalTypeError(e) == e.kind = "TypeError" /\ ~IsNetworkMessage(e.message)

IsNonError(e) == e.kind \in {"string", "null", "undefined"}

RejectedWith(v) == settled = <<[how |-> "reject", value |-> v]>>

\* nothing is outstanding: no call of input or onFailedAttempt, no timer
Quiet == pc = "none" /\ ~timeoutId.active

\* The operation failed on every attempt with the same retryable failure, the
\* observer never raised, retries >= 1, and the invocation has come to rest.
ExhaustionRun ==
  /\ pc = "none"
  /\ opts.retries >= 1
  /\ results # <<>>
  /\ observerThrew = <<>>
  /\ \A i \in 1..Len(results) :
       /\ IsRetryable(results[i])
       /\ results[i].kind = results[1].kind
       /\ results[i].message = results[1].message

C4_Resolved ==
  (results # <<>> /\ Last(results).kind = "value") =>
    /\ settled = <<[how |-> "resolve", value |-> Last(results)]>>
    /\ Last(results).id = Len(results)
    /\ inputCalls = [k \in 1..Len(results) |-> k]
    /\ \A i \in 1..(Len(results) - 1) : IsRetryable(results[i])
    /\ Len(observerCalls) = Len(results) - 1
    /\ Quiet

C4_NoCallAfterSuccess ==
  (settled # <<>> /\ settled[1].how = "resolve") =>
    /\ inputCalls' = inputCalls
    /\ observerCalls' = observerCalls
    /\ settled' = settled

C4_ResolvesWithFirstSuccess == [](C4_Resolved) /\ [][C4_NoCallAfterSuccess]_vars

C4_Witness ==
  /\ Len(results) = 3
  /\ settled = <<[how |-> "resolve", value |-> Val("value", "fixture", 3)]>>
  /\ Len(inputCalls) = 3

\* C5: an AbortError raised on attempt k makes retry reject with the wrapped
\* originalError, not the wrapper; the operation has been invoked exactly k
\* times, nothing further is scheduled and the observer is not invoked for it.
C5_AbortRejectsWithOriginal ==
  (results # <<>> /\ Last(results).kind = "AbortError") =>
    /\ Len(settled) = 1
    /\ settled[1].how = "reject"
    /\ settled[1].value.kind = "Error"
    /\ settled[1].value.message = Last(results).message
    /\ settled[1].value.id = Last(results).origId
    /\ Len(inputCalls) = Len(results)
    /\ Len(observerCalls) = Len(results) - 1
    /\ timeouts = <<>>
    /\ Quiet

C5_Witness ==
  /\ Len(results) = 3
  /\ Last(results).kind = "AbortError"
  /\ Last(results).message = "Failed to fetch"
  /\ results[2].message = "NetworkError when attempting to fetch resource."
  /\ Len(settled) = 1
  /\ Len(inputCalls) = 3

\* C6: a TypeError is fatal exactly when its message is none of the four
\* network messages: it then rejects as-is after k invocations with no
\* observer call; a network TypeError and any other Error go to the observer
\* and, once it returns, to the accumulator.
C6_TypeErrorFatalUnlessNetwork ==
  results # <<>> =>
    /\ IsFatalTypeError(Last(results)) =>
         /\ RejectedWith(Last(results))
         /\ Len(inputCalls) = Len(results)
         /\ Len(observerCalls) = Len(results) - 1
         /\ Quiet
    /\ IsRetryable(Last(results)) =>
         /\ Len(observerCalls) = Len(results)
         /\ Last(observerCalls).message = Last(results).message
         /\ pc = "onFailedAttempt" => settled = <<>>
         /\ (pc # "onFailedAttempt" /\ observerThrew = <<>>) =>
              \E i \in 1..Len(errors) : errors[i] = Last(results)
    /\ \A i \in 1..(Len(results) - 1) :
         (results[i].kind = "TypeError" /\ IsNetworkMessage(results[i].message)) =>
           /\ Len(inputCalls) > i
           /\ \E j \in 1..Len(errors) : errors[j] = results[i]

C6_Witness ==
  /\ Len(results) = 2
  /\ results[1] = Val("TypeError", "Failed to fetch", 1)
  /\ results[2] = Val("TypeError", "type-error-fixture", 2)
  /\ RejectedWith(results[2])
  /\ Len(observerCalls) = 1

\* C7: when the observer raises, retry rejects with exactly what it raised,
\* no further attempt and no further observer call occurs, and neither that
\* failure nor the attempt's failure is added to the accumulator.
C7_ObserverFailure ==
  observerThrew # <<>> =>
    /\ Len(observerThrew) = 1
    /\ RejectedWith(observerThrew[1])
    /\ Quiet
    /\ Len(inputCalls) = Len(results)
    /\ Len(observerCalls) = Len(results)
    /\ errors = SubSeq(results, 1, Len(results) - 1)

C7_Witness ==
  /\ observerThrew = <<Val("Error", "thrown from onFailedAttempt", 0)>>
  /\ Len(results) = 2
  /\ Len(errors) = 1
  /\ Len(settled) = 1

Called == pc # "idle"

\* C11: with minTimeout > maxTimeout after the merge over the defaults, retry
\* fails with 'minTimeout must be less than maxTimeout' before any attempt:
\* the operation and the observer are never invoked and no timer is ever
\* scheduled; with minTimeout = maxTimeout the engine goes on to attempt 1.
C11_ValidatesTimeouts ==
  Called =>
    LET min == IF options.minTimeout = <<>> THEN 1000 ELSE options.minTimeout[1]
        max == IF options.maxTimeout = <<>> THEN Infinity ELSE options.maxTimeout[1]
    IN /\ (~max.inf /\ min > max.v) =>
            /\ RejectedWith(Val("Error", "minTimeout must be less than maxTimeout", 0))
            /\ inputCalls = <<>>
            /\ observerCalls = <<>>
            /\ ~timeoutId.set
            /\ pc = "none"
       /\ (~max.inf /\ min = max.v) =>
            /\ inputCalls # <<>>
            /\ inputCalls[1] = 1
            /\ \A i \in 1..Len(settled) : settled[i].value # ConfigError

C11_Witness ==
  /\ Called
  /\ opts.minTimeout = 2
  /\ opts.maxTimeout = Num(1)
  /\ RejectedWith(ConfigError)
  /\ inputCalls = <<>>

\* b to the power e, e >= 0
RECURSIVE Exp(_, _)
Exp(b, e) == IF e = 0 THEN 1 ELSE Exp(b, e - 1) * b

Abs(x) == IF x < 0 THEN 0 - x ELSE x

\* r is p/q (q > 0) rounded to the nearest integer, a half going up
IsRounded(r, p, q) == q * (2 * r - 1) <= 2 * p /\ 2 * p < q * (2 * r + 1)

\* e is the i-th entry (0-based) for min, max and factor
IsEntry(e, i, min, max, factor) ==
  LET p == (IF min >= 1 THEN min ELSE 1) * Exp(factor.num, i)
      q == Exp(factor.den, i)
  IN \E r \in (0 - Abs(p) - 1)..(Abs(p) + 1) :
       /\ IsRounded(r, p, q)
       /\ e = IF ~max.inf /\ r > max.v THEN max.v ELSE r

Schedule ==
  generateTimeouts(opts.retries, opts.minTimeout, opts.maxTimeout, opts.factor)

\* a step that starts attempt N + 1, N >= 1: attempt N has failed retryably,
\* its observer call has completed, nothing is in flight, and the N-th entry
\* of the schedule has elapsed since the retry was scheduled
C13_StartsNextAttempt ==
  (Len(inputCalls') > Len(inputCalls) /\ Len(inputCalls) >= 1) =>
    LET N == Len(inputCalls)
    IN /\ Len(inputCalls') = N + 1
       /\ inputCalls'[N + 1] = N + 1
       /\ Len(results) = N
       /\ IsRetryable(results[N])
       /\ Len(observerCalls) = N
       /\ observerDone = N
       /\ observerThrew = <<>>
       /\ pc \notin {"input", "onFailedAttempt"}
       /\ timeoutId.set
       /\ timeoutId.timeout = Schedule[N]
       /\ now' >= timeoutId.at + (IF Schedule[N] > 0 THEN Schedule[N] ELSE 0)
       /\ timeoutId.at >= observerAt
       /\ now' >= observerAt + (timeoutId.at - observerAt)

\* a step that completes the observer call of attempt N and schedules a retry
\* does so at the time of completion, T >= 0 after the observer was invoked,
\* with the N-th entry of the schedule
C13_SchedulesRetry ==
  (observerDone' > observerDone /\ timeoutId'.active) =>
    /\ pc = "onFailedAttempt"
    /\ observerAt = now
    /\ timeoutId'.at = now'
    /\ now' >= observerAt
    /\ timeoutId'.timeout = Schedule[observerDone']
    /\ Len(inputCalls') = Len(inputCalls)

\* C13: attempt N + 1 is never started before attempt N has failed, the
\* failure has been classified, the observer call for attempt N has completed
\* and the delay popped from the front of the schedule (its N-th entry) has
\* elapsed after the retry was scheduled; an observer that takes T time units
\* keeps attempt N + 1 from starting earlier than T after it was invoked.
C13_OrderedAttempts == [][C13_StartsNextAttempt /\ C13_SchedulesRetry]_vars

C13_Witness ==
  /\ Len(inputCalls) = 3
  /\ pc = "input"
  /\ Schedule = <<2, 4>>
  /\ timeoutId.timeout = 4
  /\ timeoutId.at - observerAt = 1
  /\ now = timeoutId.at + 4

\* calls of input() that have not returned or raised yet
InputInFlight == Len(inputCalls) - Len(results)

\* calls of onFailedAttempt that have not completed yet
ObserverInFlight == Len(observerCalls) - observerDone

\* C14: within one invocation at most one asynchronous activity is
\* outstanding at any time: never two calls of the operation, never two calls
\* of the observer, never a call of the operation together with a call of the
\* observer, and the retry timer is armed only while neither is in flight.
C14_OneOutstanding ==
  /\ InputInFlight \in {0, 1}
  /\ ObserverInFlight \in {0, 1}
  /\ InputInFlight + ObserverInFlight + (IF timeoutId.active THEN 1 ELSE 0) <= 1

C14_Witness ==
  /\ Len(inputCalls) = 2
  /\ InputInFlight = 0
  /\ ObserverInFlight = 1
  /\ ~timeoutId.active
  /\ timeouts # <<>>

\* A retry decision has just been taken for attempt N = Len(results): the
\* attempt failed retryably, its observer call completed without raising and
\* no further attempt has started, so now is still the time of the decision.
Decided ==
  /\ results # <<>>
  /\ IsRetryable(Last(results))
  /\ observerDone = Len(results)
  /\ observerThrew = <<>>
  /\ Len(inputCalls) = Len(results)

\* the decision took the time-budget exit: the failure was appended, the
\* marker prepended, nothing scheduled, the remaining entries left in place,
\* and retry rejected
BudgetExit ==
  /\ errors = <<Marker>> \o results
  /\ ~timeoutId.active
  /\ timeouts = SubSeq(Schedule, Len(results), Len(Schedule))
  /\ Len(settled) = 1
  /\ settled[1].how = "reject"

\* the decision popped the next entry of the schedule and armed the timer
RetryScheduled ==
  /\ errors = results
  /\ timeoutId.active
  /\ timeoutId.timeout = Schedule[Len(results)]
  /\ timeoutId.at = now
  /\ timeouts = SubSeq(Schedule, Len(results) + 1, Len(Schedule))
  /\ settled = <<>>

\* C15 as stated: at each retry decision, if the time elapsed since the first
\* attempt started is >= the last entry of the schedule, the failure is
\* appended, the marker prepended, nothing further scheduled and retry
\* rejects; otherwise the next entry is popped and a retry is scheduled. (With
\* an empty schedule there is no last entry: either outcome is accepted.)
C15_AsStated ==
  Decided =>
    LET elapsed == now - operationStart
    IN /\ (Schedule # <<>> /\ elapsed >= Last(Schedule)) => BudgetExit
       /\ (Schedule # <<>> /\ elapsed < Last(Schedule)) => RetryScheduled
       /\ Schedule = <<>> => (BudgetExit \/ RetryScheduled)

\* C15 with at least one retry configured: the statement above holds.
C15_WithRetries == opts.retries >= 1 => C15_AsStated

\* C18 as stated: with retries = 0 the operation is attempted exactly once and
\* the first retryable failure takes the time-budget exit, the marker being
\* prepended to the accumulator before retry rejects.
C18_AsStated ==
  (opts.retries = 0 /\ Decided) =>
    /\ Len(inputCalls) = 1
    /\ ~timeoutId.set
    /\ Len(settled) = 1
    /\ settled[1].how = "reject"
    /\ errors = <<Marker>> \o results

\* C18 without the marker: with retries = 0 the operation is attempted exactly
\* once, nothing is scheduled and retry rejects with the failure; the
\* accumulator holds that failure alone.
C18_AttemptedOnce ==
  (opts.retries = 0 /\ Decided) =>
    /\ Len(inputCalls) = 1
    /\ ~timeoutId.set
    /\ RejectedWith(results[1])
    /\ errors = results

\* retry has rejected at a retry decision: retries ran out or the time budget
\* expired
Exhausted == Decided /\ settled # <<>>

\* how often the message of results[i] occurs among the operation's failures
Occurrences(i) ==
  Cardinality({j \in 1..Len(results) : results[j].message = results[i].message})

Max(S) == CHOOSE x \in S : \A y \in S : x >= y

\* the running occurrence count of the message of errs[i] at position i
Running(errs, i) ==
  Cardinality({j \in 1..i : errs[j].message = errs[i].message})

\* the total occurrence count of the message of errs[i]
Total(errs, i) ==
  Cardinality({j \in 1..Len(errs) : errs[j].message = errs[i].message})

\* the positions whose running count is >= the highest running count before
UpdatePositions(errs) ==
  {i \in 1..Len(errs) : \A j \in 1..(i - 1) : Running(errs, i) >= Running(errs, j)}

C19_AsStated ==
  (Called /\ inputCalls # <<>>) =>
    /\ \A i \in 1..(Len(Schedule) - 1) : Schedule[i + 1] >= Schedule[i]
    /\ maxRetryTime.defined =>
         \A i \in 1..Len(Schedule) : maxRetryTime.v >= Schedule[i]

\* C19 for factors >= 1: the schedule is non-decreasing and maxRetryTime is
\* its largest entry.
C19_GrowingFactor ==
  opts.factor.num >= opts.factor.den => C19_AsStated

\* retry has rejected after at least one attempt: through an abort, a fatal
\* TypeError, a non-error, a failure of the observer, or exhaustion
RejectedAfterAttempt ==
  /\ settled # <<>>
  /\ settled[1].how = "reject"
  /\ inputCalls # <<>>

\* at and after such a settlement no retry timer is armed and no call of the
\* operation or of the observer is in flight
C20_NothingOutstanding ==
  RejectedAfterAttempt =>
    /\ ~timeoutId.active
    /\ InputInFlight = 0
    /\ ObserverInFlight = 0

\* after such a settlement no step calls the operation or the observer
C20_NoCallAfterSettlement ==
  RejectedAfterAttempt =>
    /\ inputCalls' = inputCalls
    /\ observerCalls' = observerCalls
    /\ settled' = settled

\* C20: whenever retry settles through an abort, a fatal TypeError, a
\* non-error, a failure of the observer or exhaustion, no retry timer is
\* outstanding at the moment of settlement, and afterwards the operation and
\* the observer are never called again.
C20_SettlesWithNothingPending ==
  [](C20_NothingOutstanding) /\ [][C20_NoCallAfterSettlement]_vars

C20_Witness ==
  /\ RejectedAfterAttempt
  /\ Decided
  /\ errors[1] = Marker
  /\ timeouts # <<>>
  /\ ~timeoutId.active

\* ------------------------------------------------------------------ C21..C22
\* C21: the attempt number passed to the operation is 1 on the first
\* invocation and grows by exactly 1 with each retry (the k-th invocation
\* receives k); the operation is never invoked more than retries + 1 times,
\* so the retriesLeft = retries - (attemptNumber - 1) handed to the observer
\* is never negative and strictly decreases from one call to the next.
C21_AttemptNumbers ==
  /\ inputCalls = [k \in 1..Len(inputCalls) |-> k]
  /\ Called => Len(inputCalls) <= opts.retries + 1
  /\ \A k \in 1..Len(observerCalls) :
       /\ observerCalls[k].attemptNumber >= 1
       /\ observerCalls[k].retriesLeft =
            opts.retries - (observerCalls[k].attemptNumber - 1)
       /\ observerCalls[k].retriesLeft >= 0
  /\ \A k \in 1..(Len(observerCalls) - 1) :
       observerCalls[k + 1].retriesLeft < observerCalls[k].retriesLeft

C21_Witness ==
  /\ opts.retries = 3
  /\ inputCalls = <<1, 2, 3, 4>>
  /\ Len(observerCalls) = 4
  /\ [k \in 1..4 |-> observerCalls[k].attemptNumber] = <<1, 2, 3, 4>>
  /\ observerCalls[4].retriesLeft = 0

\* C22: with retries >= 1, a monotonic clock and timers that never fire
\* early, the empty-schedule exit of the inner retry is unreachable: once
\* every schedule entry has been consumed the time elapsed since the first
\* attempt is >= maxRetryTime, so every exhaustion takes the time-budget
\* branch and leaves the accumulator with the marker at index 0 followed by
\* the failures of all attempts made, in order; an exhaustion without the
\* marker happens only with retries = 0.
C22_ExhaustionHasMarker ==
  /\ (Called /\ opts.retries >= 1 /\ Len(inputCalls) = opts.retries + 1) =>
       /\ maxRetryTime.defined
       /\ now - operationStart >= maxRetryTime.v
  /\ (Exhausted /\ opts.retries >= 1) =>
       /\ maxRetryTime.defined
       /\ now - operationStart >= maxRetryTime.v
       /\ errors[1] = Marker
       /\ Len(errors) = Len(results) + 1
       /\ \A i \in 1..Len(results) : errors[i + 1] = results[i]
       /\ Len(results) = Len(inputCalls)
  /\ (Exhausted /\ errors[1] # Marker) => opts.retries = 0

C22_Witness ==
  /\ Exhausted
  /\ opts.retries = 2
  /\ timeouts = <<>>
  /\ Len(inputCalls) = 3
  /\ errors[1] = Marker
  /\ Len(errors) = 4

====
